---- MODULE Spec2Model ----
(***************************************************************************)
(* Model of Dataset/parser.py: the script reads an annotation table        *)
(* (esc50.csv), and for every row whose 'category' equals the configured   *)
(* label moves the file named by 'filename' from the source directory to   *)
(* the label's destination directory, printing one line per selected row.  *)
(*                                                                         *)
(* The filesystem is the part of it the script can see: the files directly *)
(* under `source` (srcFS), whether the directory `dest` exists (destDir)   *)
(* and the files directly under `dest` (dstFS).  A destination entry is    *)
(* "none" (no file), "old" (a file that was there before the first run) or *)
(* "moved" (the file that came from the source directory).                 *)
(***************************************************************************)
EXTENDS Integers, Sequences, FiniteSets, TLC

\* ---------------------------------------------------------------- bounds
MaxRows == 3        \* longest annotation table explored
MaxRuns == 2        \* how many times the script is started in a row

\* ------------------------------------------------------- configuration
csv_file == "esc50.csv"
label    == "door_wood_creaks"
source   == "Dataset/audio"
dest     == <<"Dataset/split_up_data/background_noise", label>>

\* ------------------------------------------------------ explored inputs
Files     == {"a.wav", "b.wav", "c.wav"}
Labels    == {label, "dog"}
Rows      == [filename : Files, category : Labels]
CsvKinds  == {"ok", "unreadable", "no_category", "no_filename"}
Contents  == {"none", "old", "moved"}

RECURSIVE SeqsUpTo(_)
SeqsUpTo(n) ==
    IF n = 0 THEN {<< >>}
    ELSE LET shorter == SeqsUpTo(n - 1)
         IN  shorter \cup {Append(s, r) : s \in {t \in shorter : Len(t) = n - 1}, r \in Rows}

VARIABLES
    csv,        \* what pd.read_csv finds at csv_file
    data,       \* the rows of the table, in file order
    srcFS,      \* filenames present directly under source
    destDir,    \* whether the directory dest exists
    dstFS,      \* filename -> content of dest/filename
    pc,         \* position of the script
    err,        \* the exception that ended the run, "none" if none
    index,      \* position of the loop in data (1-based)
    log,        \* outcome of every row the loop has finished, in order
    probed,     \* results of the os.path.exists calls of this run
    run,        \* number of the current run
    src0, dst0, \* filesystem before the first run
    runSrc, runDst,   \* filesystem when the current run started
    prevLog, prevPc   \* log and final position of the previous run

vars == <<csv, data, srcFS, destDir, dstFS, pc, err, index, log, probed,
          run, src0, dst0, runSrc, runDst, prevLog, prevPc>>

env    == <<csv, data, destDir, src0, dst0>>
ghosts == <<run, runSrc, runDst, prevLog, prevPc>>

\* ------------------------------------------------------ pure operations
\* row[c] of a pandas row raises KeyError when the table has no column c
HasColumn_AnyColumn(c) == TRUE
HasColumn(c) ==
    /\ (c = "category") => csv # "no_category"
    /\ (c = "filename") => csv # "no_filename"

\* row['category'] == label
Selected_All(row) == TRUE
Selected(row) == row.category = label

src_path(filename) == <<source, filename>>
dst_path(filename) == <<dest, filename>>

os_path_exists_Always(filename, s) == TRUE
os_path_exists(filename, s) == filename \in s

\* shutil.move(src_path, dst_path) of a regular file onto a file path:
\* renames (replacing a file already at dst_path); raises when the
\* directory of dst_path does not exist, leaving everything in place.
shutil_move_Copy(filename, s, d, dir) ==
    IF dir
    THEN [raised |-> FALSE, src |-> s, dst |-> [d EXCEPT ![filename] = "moved"]]
    ELSE [raised |-> TRUE, src |-> s, dst |-> d]
shutil_move(filename, s, d, dir) ==
    IF dir
    THEN [raised |-> FALSE, src |-> s \ {filename},
          dst |-> [d EXCEPT ![filename] = "moved"]]
    ELSE [raised |-> TRUE, src |-> s, dst |-> d]

\* the line the loop reports for row i: "Moved" (line 38), "File not found"
\* (line 40, SourceMissing) or nothing (a row the filter of line 29 skips)
Outcome_AlwaysMoved(i, o) == [row |-> i, outcome |-> "Moved"]
Outcome(i, o) == [row |-> i, outcome |-> o]

CurRow == data[index]

\* ------------------------------------------------------------- initial
Init ==
    /\ csv \in CsvKinds
    /\ data \in SeqsUpTo(MaxRows)
    /\ (csv = "unreadable") => data = << >>
    /\ srcFS \in SUBSET Files
    /\ destDir \in BOOLEAN
    /\ dstFS \in [Files -> {"none", "old"}]
    /\ (~destDir) => \A f \in Files : dstFS[f] = "none"
    /\ pc = "NotStarted"
    /\ err = "none"
    /\ index = 1
    /\ log = << >>
    /\ probed = << >>
    /\ run = 1
    /\ src0 = srcFS
    /\ dst0 = dstFS
    /\ runSrc = srcFS
    /\ runDst = dstFS
    /\ prevLog = << >>
    /\ prevPc = "none"

\* ------------------------------------------------------------- actions
\* lines 16-24: the configuration constants are bound
Configure ==
    /\ pc = "NotStarted"
    /\ pc' = "Loading"
    /\ UNCHANGED <<env, ghosts, srcFS, dstFS, err, index, log, probed>>

\* line 26: data = pd.read_csv(csv_file), the file can be read
ReadCsv ==
    /\ pc = "Loading"
    /\ csv # "unreadable"
    /\ pc' = "Processing"
    /\ index' = 1
    /\ UNCHANGED <<env, ghosts, srcFS, dstFS, err, log, probed>>

\* line 26: pd.read_csv raises (file absent or unreadable)
ReadCsvRaises ==
    /\ pc = "Loading"
    /\ csv = "unreadable"
    /\ pc' = "Failed"
    /\ err' = "ReadError"
    /\ UNCHANGED <<env, ghosts, srcFS, dstFS, index, log, probed>>

\* line 29 or 31: the row is asked for a column the table does not have
RowKeyError ==
    /\ pc = "Processing"
    /\ index <= Len(data)
    /\ \/ ~HasColumn("category")
       \/ Selected(CurRow) /\ ~HasColumn("filename")
    /\ pc' = "Failed"
    /\ err' = "KeyError"
    /\ UNCHANGED <<env, ghosts, srcFS, dstFS, index, log, probed>>

\* lines 28-29: the row's category is not the label; nothing else happens
RowSkip ==
    /\ pc = "Processing"
    /\ index <= Len(data)
    /\ HasColumn("category")
    /\ ~Selected(CurRow)
    /\ log' = Append(log, Outcome(index, "Skip"))
    /\ index' = index + 1
    /\ UNCHANGED <<env, ghosts, srcFS, dstFS, pc, err, probed>>

\* lines 29-33: the row is selected, filename and the two paths are bound
RowInclude ==
    /\ pc = "Processing"
    /\ index <= Len(data)
    /\ HasColumn("category")
    /\ Selected(CurRow)
    /\ HasColumn("filename")
    /\ pc' = "CheckExists"
    /\ UNCHANGED <<env, ghosts, srcFS, dstFS, err, index, log, probed>>

\* line 36: os.path.exists(src_path) is true
SourceExists ==
    /\ pc = "CheckExists"
    /\ os_path_exists(CurRow.filename, srcFS)
    /\ probed' = Append(probed, [row |-> index, existed |-> CurRow.filename \in srcFS])
    /\ pc' = "Moving"
    /\ UNCHANGED <<env, ghosts, srcFS, dstFS, err, index, log>>

\* lines 36, 39-40: os.path.exists(src_path) is false, "File not found"
FileNotFound ==
    /\ pc = "CheckExists"
    /\ ~os_path_exists(CurRow.filename, srcFS)
    /\ probed' = Append(probed, [row |-> index, existed |-> CurRow.filename \in srcFS])
    /\ log' = Append(log, Outcome(index, "SourceMissing"))
    /\ index' = index + 1
    /\ pc' = "Processing"
    /\ UNCHANGED <<env, ghosts, srcFS, dstFS, err>>

\* lines 37-38: shutil.move succeeds, "Moved"
Move ==
    /\ pc = "Moving"
    /\ LET m == shutil_move(CurRow.filename, srcFS, dstFS, destDir)
       IN  /\ ~m.raised
           /\ srcFS' = m.src
           /\ dstFS' = m.dst
    /\ log' = Append(log, Outcome(index, "Moved"))
    /\ index' = index + 1
    /\ pc' = "Processing"
    /\ UNCHANGED <<env, ghosts, err, probed>>

\* line 37: shutil.move raises, the script ends with the traceback
MoveRaises ==
    /\ pc = "Moving"
    /\ LET m == shutil_move(CurRow.filename, srcFS, dstFS, destDir)
       IN  /\ m.raised
           /\ srcFS' = m.src
           /\ dstFS' = m.dst
    /\ pc' = "Failed"
    /\ err' = "MoveError"
    /\ UNCHANGED <<env, ghosts, index, log, probed>>

\* line 28: iterrows is exhausted, the script ends normally
LoopEnd ==
    /\ pc = "Processing"
    /\ index > Len(data)
    /\ pc' = "Done"
    /\ UNCHANGED <<env, ghosts, srcFS, dstFS, err, index, log, probed>>

\* the script is started again on the filesystem the last run left
Rerun ==
    /\ pc \in {"Done", "Failed"}
    /\ run < MaxRuns
    /\ run' = run + 1
    /\ prevLog' = log
    /\ prevPc' = pc
    /\ runSrc' = srcFS
    /\ runDst' = dstFS
    /\ pc' = "NotStarted"
    /\ err' = "none"
    /\ index' = 1
    /\ log' = << >>
    /\ probed' = << >>
    /\ UNCHANGED <<env, srcFS, dstFS>>

Next ==
    \/ Configure
    \/ ReadCsv
    \/ ReadCsvRaises
    \/ RowKeyError
    \/ RowSkip
    \/ RowInclude
    \/ SourceExists
    \/ FileNotFound
    \/ Move
    \/ MoveRaises
    \/ LoopEnd
    \/ Rerun

Spec == Init /\ [][Next]_vars

\* ------------------------------------------------------------ typing
TypeOK ==
    /\ csv \in CsvKinds
    /\ data \in Seq(Rows) /\ Len(data) <= MaxRows
    /\ srcFS \subseteq Files
    /\ destDir \in BOOLEAN
    /\ dstFS \in [Files -> Contents]
    /\ pc \in {"NotStarted", "Loading", "Processing", "CheckExists", "Moving", "Done", "Failed"}
    /\ err \in {"none", "ReadError", "KeyError", "MoveError"}
    /\ index \in 1..(Len(data) + 1)
    /\ run \in 1..MaxRuns
    /\ (pc \in {"CheckExists", "Moving"}) => index <= Len(data)


\* ------------------------------------------------------------ helpers
Count(lg, o) == Cardinality({i \in 1..Len(lg) : lg[i].outcome = o})

moved   == Count(log, "Moved")
missing == Count(log, "SourceMissing")
skipped == Count(log, "Skip")

\* the record's label is the configured one (the exact-match selector)
Matches(i) == data[i].category = label

\* os.path.exists found the file of row i when the loop was at row i
ExistedWhenProcessed(i) ==
    \E k \in 1..Len(probed) : probed[k].row = i /\ probed[k].existed

FsUntouched == srcFS = src0 /\ dstFS = dst0

\* the whole loop (lines 28-40) as a function of the table and the
\* filesystem: where it ends, what it leaves and what it has reported
RECURSIVE RunRows(_, _, _, _)
RunRows(rows, s, d, r) ==
    IF rows = << >> THEN [r EXCEPT !.src = s, !.dst = d]
    ELSE LET row == Head(rows)
         IN  IF ~Selected(row)
             THEN RunRows(Tail(rows), s, d, [r EXCEPT !.skipped = @ + 1])
             ELSE IF ~os_path_exists(row.filename, s)
             THEN RunRows(Tail(rows), s, d, [r EXCEPT !.missing = @ + 1])
             ELSE LET m == shutil_move(row.filename, s, d, destDir)
                  IN  IF m.raised
                      THEN [r EXCEPT !.src = m.src, !.dst = m.dst]
                      ELSE RunRows(Tail(rows), m.src, m.dst, [r EXCEPT !.moved = @ + 1])

EmptyReport == [src |-> {}, dst |-> dst0, moved |-> 0, missing |-> 0, skipped |-> 0]

Permuted(p) == [i \in 1..Len(data) |-> data[p[i]]]

FinalResult ==
    [src |-> srcFS, dst |-> dstFS, moved |-> moved, missing |-> missing, skipped |-> skipped]

\* the loop function and the step-by-step script end in the same result
RunRowsAgrees ==
    (csv = "ok" /\ run = 1 /\ pc \in {"Done", "Failed"})
        => RunRows(data, src0, dst0, EmptyReport) = FinalResult

\* ------------------------------------------------------------- claims

\* C1: a selected record whose source file exists when it is processed
\* ends with the file at destinationPath and gone from sourcePath.
C1_MoveRelocates ==
    [][(pc = "Moving")
         => /\ data[index].filename \notin srcFS'
            /\ dstFS'[data[index].filename] = "moved"]_vars

\* C2: whenever the script is about to move a file to destinationPath,
\* the directory containing destinationPath exists.
C2_DestDirBeforeMove == (pc = "Moving") => destDir

\* C3: a selected record whose source file is missing when it is
\* processed changes nothing on the filesystem, raises nothing, is
\* reported as SourceMissing, and the loop goes on to the next record.
C3_MissingSourceIsReported ==
    [][(pc = "CheckExists" /\ data[index].filename \notin srcFS)
         => /\ srcFS' = srcFS /\ dstFS' = dstFS /\ destDir' = destDir
            /\ err' = "none"
            /\ pc' = "Processing"
            /\ index' = index + 1
            /\ log' = Append(log, [row |-> index, outcome |-> "SourceMissing"])]_vars

C3_Witness ==
    /\ pc = "Processing"
    /\ index <= Len(data)
    /\ log # << >>
    /\ log[Len(log)].outcome = "SourceMissing"
    /\ data[log[Len(log)].row].filename \notin srcFS

\* C4: a record whose label is not the selected one is skipped: no
\* error, no existence test, no filesystem change, counted as skipped.
C4_UnselectedIsSkipped ==
    [][(pc = "Processing" /\ index <= Len(data) /\ csv # "no_category"
            /\ data[index].category # label)
         => /\ srcFS' = srcFS /\ dstFS' = dstFS /\ destDir' = destDir
            /\ err' = "none"
            /\ pc' = "Processing"
            /\ probed' = probed
            /\ index' = index + 1
            /\ log' = Append(log, [row |-> index, outcome |-> "Skip"])]_vars

C4_Witness ==
    \E i \in 1..Len(log) :
        /\ log[i].outcome = "Skip"
        /\ data[log[i].row].category # label
        /\ data[log[i].row].filename \in srcFS
        /\ destDir

\* C5: a second run right after a run that reached Done moves nothing,
\* leaves the filesystem as it found it, and reports every record that
\* matches the selector as missing.
C5_SecondRunIsIdle ==
    (run > 1 /\ prevPc = "Done")
        => /\ srcFS = runSrc /\ dstFS = runDst
           /\ pc \notin {"Moving", "Failed"}
           /\ moved = 0
           /\ (pc = "Done") =>
                 /\ Len(log) = Len(data)
                 /\ \A i \in 1..Len(data) :
                        Matches(i) => log[i] = [row |-> i, outcome |-> "SourceMissing"]

C5_Witness ==
    /\ run = 2 /\ prevPc = "Done" /\ pc = "Done"
    /\ Count(prevLog, "Moved") > 0
    /\ missing > 0

C7_OnlyLoadFailureAborts == (csv = "ok") => pc # "Failed"

\* C8: at Done the report adds up to the number of records, skipped counts
\* the unselected records, moved the selected records whose file existed
\* when processed and missing the selected records whose file did not.
C8_ReportAtDone ==
    (pc = "Done")
        => /\ moved + missing + skipped = Len(data)
           /\ skipped = Cardinality({i \in 1..Len(data) : ~Matches(i)})
           /\ moved = Cardinality({i \in 1..Len(data) : Matches(i) /\ ExistedWhenProcessed(i)})
           /\ missing = Cardinality({i \in 1..Len(data) : Matches(i) /\ ~ExistedWhenProcessed(i)})
           /\ (run = 1) =>
                 moved = Cardinality({f \in src0 :
                             \E i \in 1..Len(data) : Matches(i) /\ data[i].filename = f})

C8_Witness ==
    /\ pc = "Done" /\ run = 1
    /\ data = << [filename |-> "a.wav", category |-> label],
                 [filename |-> "b.wav", category |-> "dog"],
                 [filename |-> "c.wav", category |-> label] >>
    /\ src0 = {"a.wav"}
    /\ moved = 1 /\ missing = 1 /\ skipped = 1
    /\ dstFS["a.wav"] = "moved" /\ dstFS["c.wav"] = "none" /\ srcFS = {}

\* C9: the rows are processed in table order, each once, and every
\* permutation of the table ends in the same filesystem and counts.
C9_OrderIrrelevant ==
    (csv = "ok" /\ run = 1 /\ pc \in {"Done", "Failed"})
        => /\ \A i \in 1..Len(log) : log[i].row = i
           /\ \A p \in Permutations(1..Len(data)) :
                 RunRows(Permuted(p), src0, dst0, EmptyReport) = FinalResult

\* C10 (as stated): every file initially under the source root is at
\* exactly one of its two paths, files no selected record names stay, and
\* no file already under the destination root is removed or replaced.
C10_FilesConserved ==
    /\ \A f \in src0 : (f \in srcFS) # (dstFS[f] = "moved")
    /\ \A f \in src0 :
          (~ \E i \in 1..Len(data) : Matches(i) /\ data[i].filename = f) => f \in srcFS
    /\ \A f \in Files : (dst0[f] = "old") => dstFS[f] = "old"

\* C10 (amended): as stated, except that a file already at a destination
\* path is replaced by the move of a selected record of the same filename
\* whose source file exists, and only by that.
C10_FilesConservedOrReplaced ==
    /\ srcFS \subseteq src0
    /\ \A f \in Files : (dstFS[f] = "moved") => f \in src0
    /\ \A f \in src0 : (f \in srcFS) # (dstFS[f] = "moved")
    /\ \A f \in src0 :
          (~ \E i \in 1..Len(data) : Matches(i) /\ data[i].filename = f) => f \in srcFS
    /\ \A f \in Files :
          (dst0[f] = "old") =>
              \/ dstFS[f] = "old"
              \/ /\ dstFS[f] = "moved"
                 /\ f \in src0
                 /\ \E i \in 1..Len(data) : Matches(i) /\ data[i].filename = f
    /\ \A f \in Files : (dst0[f] = "none" /\ f \notin src0) => dstFS[f] = "none"

C10_Witness ==
    \E f \in Files :
        /\ dst0[f] = "old" /\ f \in src0
        /\ dstFS[f] = "moved" /\ f \notin srcFS
        /\ \E g \in Files : g # f /\ dst0[g] = "old" /\ dstFS[g] = "old"

====
